---- MODULE Spec2Model ----
(***************************************************************************)
(* Model of owm-problem/src/rect.rs: Pos / Size / Rect value types, the    *)
(* expand_* mutators, Rect::overlap, covered_area, obscured_area and       *)
(* RangeExclusive::intersects.                                             *)
(*                                                                         *)
(* usize is modelled as 0..MaxUsize with wrap-around arithmetic (release   *)
(* profile) or a panic on overflow (overflow-checks profile).              *)
(***************************************************************************)
EXTENDS Integers, Sequences, FiniteSets

VARIABLES
    rects,          \* the slice handed to covered_area / obscured_area
    ret,            \* what the last area call returned
    rect,           \* the Rect constructed and mutated: <<>> or <<r>>
    size,           \* the Size of the last Size::new_checked: <<>> or <<s>>
    status,         \* "ok", "panicked" (unwind) or "undefined" (after UB)
    last,           \* the last constructor / expand call and its arguments
    ncalls,         \* number of expand_* calls made on rect
    overflowChecks, \* build profile: TRUE = overflow panics, FALSE = wraps
    inContract,     \* "values should be small enough, we do not expect overflow"
                    \* has held so far: no position, dimension or edge left usize
    rx, ry,         \* the two RangeExclusive<usize> operands
    rret            \* results of the last intersects calls

vars == <<rects, ret, rect, size, status, last, ncalls, overflowChecks,
          inContract, rx, ry, rret>>

----------------------------------------------------------------------------
(* Bounds *)

MaxUsize == 255
GridW == 2
GridH == 2
MaxRects == 3
MaxAmount == 1
MaxCalls == 2
MaxRangeVal == 3

Modulus == MaxUsize + 1
Usize == 0..MaxUsize

Max(a, b) == IF a >= b THEN a ELSE b
Min(a, b) == IF a <= b THEN a ELSE b

----------------------------------------------------------------------------
(* Pos, Size, Rect *)

Pos_new(x, y) == [x |-> x, y |-> y]

Size_new(width, height) == [width |-> width, height |-> height]

Rect_new(x, y, width, height) ==
    [pos |-> Pos_new(x, y), size |-> Size_new(width, height)]

\* usize -> NonZeroUsize: Err is <<>>, Ok(v) is <<v>>
try_into(v) == IF v = 0 THEN <<>> ELSE <<v>>

\* a faulty variant: a zero dimension is clamped to 1 instead of failing
Size_new_checked_clamp(width, height) ==
    <<Size_new(Max(width, 1), Max(height, 1))>>

\* Size::new_checked: <<>> when an unwrap() panics, <<size>> otherwise
Size_new_checked(width, height) ==
    IF try_into(width) = <<>> \/ try_into(height) = <<>>
    THEN <<>>
    ELSE <<Size_new(try_into(width)[1], try_into(height)[1])>>

\* Rect::new_checked: <<>> when Size::new_checked panics
Rect_new_checked(x, y, width, height) ==
    IF Size_new_checked(width, height) = <<>>
    THEN <<>>
    ELSE <<[pos |-> Pos_new(x, y), size |-> Size_new_checked(width, height)[1]]>>

left(r) == r.pos.x
top(r) == r.pos.y
\* pos.x + width: the wrapped sum; right_overflows tells when the sum left usize
right(r) == (r.pos.x + r.size.width) % Modulus
bottom(r) == (r.pos.y + r.size.height) % Modulus
right_overflows(r) == r.pos.x + r.size.width > MaxUsize
bottom_overflows(r) == r.pos.y + r.size.height > MaxUsize

Size_area(s) == (s.width * s.height) % Modulus
area(r) == Size_area(r.size)

wrapping_add(a, b) == (a + b) % Modulus
wrapping_sub(a, b) == (a - b + Modulus) % Modulus

\* a faulty variant: the width shrinks by value instead of growing
expand_left_shrink(r, value) ==
    [r EXCEPT !.pos.x = wrapping_sub(r.pos.x, value),
              !.size.width = wrapping_sub(r.size.width, value)]

\* the four mutators as they compute when nothing panics (wrapping arithmetic)
expand_left(r, value) ==
    [r EXCEPT !.pos.x = wrapping_sub(r.pos.x, value),
              !.size.width = wrapping_add(r.size.width, value)]

expand_right(r, value) ==
    [r EXCEPT !.size.width = wrapping_add(r.size.width, value)]

\* a faulty variant: the origin moves but the height does not grow
expand_top_no_grow(r, value) ==
    [r EXCEPT !.pos.y = wrapping_sub(r.pos.y, value)]

expand_top(r, value) ==
    [r EXCEPT !.pos.y = wrapping_sub(r.pos.y, value),
              !.size.height = wrapping_add(r.size.height, value)]

expand_bottom(r, value) ==
    [r EXCEPT !.size.height = wrapping_add(r.size.height, value)]

\* a faulty variant: edge-adjacent rectangles count as overlapping
overlap_inclusive(a, b) ==
    LET l == Max(left(a), left(b))
        r == Min(right(a), right(b))
        t == Max(top(a), top(b))
        bt == Min(bottom(a), bottom(b))
    IN IF l <= r /\ t <= bt
       THEN <<[pos |-> [x |-> l, y |-> t],
               size |-> [width |-> r - l, height |-> bt - t]]>>
       ELSE <<>>

\* Rect::overlap: None is <<>>, Some(r) is <<r>>
overlap(a, b) ==
    LET l == Max(left(a), left(b))
        r == Min(right(a), right(b))
        t == Max(top(a), top(b))
        bt == Min(bottom(a), bottom(b))
    IN IF l < r /\ t < bt
       THEN <<[pos |-> [x |-> l, y |-> t],
               size |-> [width |-> r - l, height |-> bt - t]]>>
       ELSE <<>>

----------------------------------------------------------------------------
(* covered_area *)

\* xs after collect, sort and dedup: the distinct left/right edges, ascending
RECURSIVE sorted_dedup(_)
sorted_dedup(S) ==
    IF S = {} THEN <<>>
    ELSE LET m == CHOOSE v \in S : \A w \in S : v <= w
         IN <<m>> \o sorted_dedup(S \ {m})

xs_of(rs) ==
    sorted_dedup({left(rs[i]) : i \in DOMAIN rs} \cup {right(rs[i]) : i \in DOMAIN rs})

\* rects.sort_by_key(|rect| rect.top()): a stable sort, i.e. for each key in
\* ascending order the rectangles with that key, in their input order
RECURSIVE concat_by_key(_, _, _)
concat_by_key(rs, keys, i) ==
    IF i > Len(keys) THEN <<>>
    ELSE LET HasKey(r) == top(r) = keys[i]
         IN SelectSeq(rs, HasKey) \o concat_by_key(rs, keys, i + 1)

sort_by_top(rs) ==
    concat_by_key(rs, sorted_dedup({top(rs[i]) : i \in DOMAIN rs}), 1)

saturating_sub(a, b) == IF a > b THEN a - b ELSE 0

\* a faulty variant: the covered frontier is overwritten instead of advanced
advance_last_y2_overwrite(r, last_y2) == bottom(r)

\* last_y2 = rect.bottom().max(last_y2)
advance_last_y2(r, last_y2) == Max(bottom(r), last_y2)

\* a faulty variant: a rectangle must extend strictly beyond the strip to span it
spans_strict(r, l, rt) == left(r) < l /\ rt < right(r)

\* the filter of line 247
spans(r, l, rt) == left(r) <= l /\ rt <= right(r)

\* the map / sum over the rectangles spanning one strip, from index i on
RECURSIVE sweep(_, _, _, _)
sweep(rs, i, width, last_y2) ==
    IF i > Len(rs) THEN 0
    ELSE LET r == rs[i]
             add == width * saturating_sub(bottom(r), Max(last_y2, top(r)))
         IN add + sweep(rs, i + 1, width, advance_last_y2(r, last_y2))

strip_area(sorted, l, rt) ==
    LET Spanning(r) == spans(r, l, rt)
    IN sweep(SelectSeq(sorted, Spanning), 1, rt - l, 0)

\* the sum over tuple_windows of xs
RECURSIVE sum_strips(_, _, _)
sum_strips(xs, sorted, i) ==
    IF i >= Len(xs) THEN 0
    ELSE strip_area(sorted, xs[i], xs[i + 1]) + sum_strips(xs, sorted, i + 1)

covered_area(rs) == sum_strips(xs_of(rs), sort_by_top(rs), 1)

----------------------------------------------------------------------------
(* obscured_area *)

\* a faulty variant: each pair of rectangles is overlapped once, not from both sides
is_other_later(i, other_i) == i < other_i

\* the filter of line 273
is_other(i, other_i) == i # other_i

\* overlaps[i]: the overlaps of rs[i] with every other rectangle, in order
RECURSIVE overlaps_of(_, _, _)
overlaps_of(rs, i, j) ==
    IF j > Len(rs) THEN <<>>
    ELSE (IF is_other(i, j) THEN overlap(rs[i], rs[j]) ELSE <<>>)
         \o overlaps_of(rs, i, j + 1)

RECURSIVE sum_covered(_, _)
sum_covered(rs, i) ==
    IF i > Len(rs) THEN 0
    ELSE covered_area(overlaps_of(rs, i, 1)) + sum_covered(rs, i + 1)

RECURSIVE flatten(_, _)
flatten(rs, i) ==
    IF i > Len(rs) THEN <<>>
    ELSE overlaps_of(rs, i, 1) \o flatten(rs, i + 1)

\* a faulty variant: the pooled union is not subtracted
obscured_sub_none(s, p) == s

\* the subtraction of lines 278-279 on usize
obscured_sub(s, p) == wrapping_sub(s, p)

\* obscured_area with the two operands of its subtraction kept: sum is the
\* first operand, pooled the second, val what is returned.  The operands are
\* bound once through a singleton set.
obscured_area_terms(rs) ==
    IF Len(rs) < 2 THEN [val |-> 0, sum |-> 0, pooled |-> 0]
    ELSE CHOOSE t \in {[val |-> obscured_sub(sp[1], sp[2]),
                        sum |-> sp[1], pooled |-> sp[2]] :
                         sp \in {<<sum_covered(rs, 1), covered_area(flatten(rs, 1))>>}} : TRUE

obscured_area(rs) == obscured_area_terms(rs).val

----------------------------------------------------------------------------
(* Inputs of the area functions: rectangles contained in a GridW x GridH    *)
(* grid, in slices of at most MaxRects.  A slice is built in ascending or  *)
(* in descending rect_key order, so that every pair of rectangles is       *)
(* handed over in both relative orders.                                    *)

GridRects ==
    {r \in [pos : [x : 0..(GridW - 1), y : 0..(GridH - 1)],
            size : [width : 1..GridW, height : 1..GridH]] :
        r.pos.x + r.size.width <= GridW /\ r.pos.y + r.size.height <= GridH}

rect_key(r) ==
    LET K == Max(GridW, GridH) + 1
    IN ((r.pos.x * K + r.pos.y) * K + r.size.width) * K + r.size.height

Monotone(s) ==
    \/ \A i \in 1..(Len(s) - 1) : rect_key(s[i]) <= rect_key(s[i + 1])
    \/ \A i \in 1..(Len(s) - 1) : rect_key(s[i]) >= rect_key(s[i + 1])

NoRet == [fn |-> "none", val |-> 0, sum |-> 0, pooled |-> 0, opt |-> <<>>]
NoLast == [op |-> "none", value |-> 0, width |-> 0, height |-> 0]
NoRRet == [called |-> FALSE, xy |-> FALSE, yx |-> FALSE, xx |-> FALSE, yy |-> FALSE]

AreaIdle == rects = <<>> /\ ret = NoRet
RectIdle ==
    /\ rect = <<>> /\ size = <<>> /\ status = "ok" /\ last = NoLast
    /\ ncalls = 0 /\ overflowChecks = FALSE /\ inContract = TRUE
RangeIdle == rx = <<0, 0>> /\ ry = <<0, 0>> /\ rret = NoRRet

rectVars == <<rect, size, status, last, ncalls, overflowChecks, inContract>>
rangeVars == <<rx, ry, rret>>

----------------------------------------------------------------------------
(* covered_area applied to a slice *)

InitArea == rects = <<>> /\ ret = NoRet /\ RectIdle /\ RangeIdle

\* the caller puts one more rectangle into the slice
PushRect ==
    /\ ret.fn = "none"
    /\ Len(rects) < MaxRects
    /\ \E r \in GridRects :
          /\ Monotone(Append(rects, r))
          /\ rects' = Append(rects, r)
    /\ UNCHANGED <<ret, rectVars, rangeVars>>

CallCoveredArea ==
    /\ ret.fn = "none"
    /\ ret' = [NoRet EXCEPT !.fn = "covered_area", !.val = covered_area(rects)]
    /\ UNCHANGED <<rects, rectVars, rangeVars>>

NextCovered == PushRect \/ CallCoveredArea

SpecCovered == InitArea /\ [][NextCovered]_vars

(* obscured_area applied to a slice *)

CallObscuredArea ==
    /\ ret.fn = "none"
    /\ \E t \in {obscured_area_terms(rects)} :
          ret' = [NoRet EXCEPT !.fn = "obscured_area", !.val = t.val,
                               !.sum = t.sum, !.pooled = t.pooled]
    /\ UNCHANGED <<rects, rectVars, rangeVars>>

NextObscured == PushRect \/ CallObscuredArea

SpecObscured == InitArea /\ [][NextObscured]_vars

(* Rect::overlap applied to every ordered pair of grid rectangles *)

InitOverlap ==
    /\ rects \in [1..2 -> GridRects] /\ ret = NoRet /\ RectIdle /\ RangeIdle

CallOverlap ==
    /\ ret.fn = "none"
    /\ ret' = [NoRet EXCEPT !.fn = "overlap", !.opt = overlap(rects[1], rects[2])]
    /\ UNCHANGED <<rects, rectVars, rangeVars>>

SpecOverlap == InitOverlap /\ [][CallOverlap]_vars

----------------------------------------------------------------------------
(* Constructors and expand_* on one Rect *)

CoordInputs == {0, 1, MaxUsize - 1, MaxUsize}
DimInputs == {1, MaxUsize - 1, MaxUsize}
Amounts == 0..MaxAmount

areaVars == <<rects, ret>>

InitRect ==
    /\ rect = <<>> /\ size = <<>> /\ status = "ok" /\ last = NoLast
    /\ ncalls = 0 /\ inContract = TRUE
    /\ overflowChecks \in BOOLEAN
    /\ AreaIdle /\ RangeIdle

Fresh == last = NoLast /\ status = "ok"

\* the rectangle's edges are representable: neither coordinate sum overflows
SmallEnough(r) == ~right_overflows(r) /\ ~bottom_overflows(r)

\* Rect::new: width and height are NonZeroUsize
CallRectNew ==
    /\ Fresh
    /\ \E x \in CoordInputs, y \in CoordInputs, w \in DimInputs, h \in DimInputs :
          /\ rect' = <<Rect_new(x, y, w, h)>>
          /\ inContract' = SmallEnough(Rect_new(x, y, w, h))
          /\ last' = [op |-> "Rect::new", value |-> 0, width |-> w, height |-> h]
    /\ UNCHANGED <<size, status, ncalls, overflowChecks, areaVars, rangeVars>>

\* Rect::new_checked: width and height are any usize
CallRectNewChecked ==
    /\ Fresh
    /\ \E x \in CoordInputs, y \in CoordInputs,
          w \in DimInputs \cup {0}, h \in DimInputs \cup {0} :
          /\ rect' = Rect_new_checked(x, y, w, h)
          /\ status' = IF Rect_new_checked(x, y, w, h) = <<>> THEN "panicked" ELSE "ok"
          /\ inContract' = (Rect_new_checked(x, y, w, h) # <<>>
                             /\ SmallEnough(Rect_new_checked(x, y, w, h)[1]))
          /\ last' = [op |-> "Rect::new_checked", value |-> 0, width |-> w, height |-> h]
    /\ UNCHANGED <<size, ncalls, overflowChecks, areaVars, rangeVars>>

\* Size::new_checked
CallSizeNewChecked ==
    /\ Fresh
    /\ \E w \in DimInputs \cup {0}, h \in DimInputs \cup {0} :
          /\ size' = Size_new_checked(w, h)
          /\ status' = IF Size_new_checked(w, h) = <<>> THEN "panicked" ELSE "ok"
          /\ last' = [op |-> "Size::new_checked", value |-> 0, width |-> w, height |-> h]
    /\ UNCHANGED <<rect, ncalls, overflowChecks, inContract, areaVars, rangeVars>>

\* One expand_* call.  under: the position subtraction underflows; over: the
\* dimension addition overflows; moved: the rect once the position is
\* written; e: the rect as wrapping arithmetic leaves it.
\* With overflow checks an overflowing operation panics where it stands.
\* Without them the values wrap, and a dimension that wraps to 0 reaches
\* NonZeroUsize::new_unchecked(0): undefined behaviour, any value may follow.
ExpandStep(op, value, under, over, moved, e) ==
    /\ status = "ok" /\ rect # <<>> /\ ncalls < MaxCalls
    /\ ncalls' = ncalls + 1
    /\ last' = [op |-> op, value |-> value, width |-> 0, height |-> 0]
    /\ inContract' = (inContract /\ ~under /\ ~over /\ SmallEnough(e))
    /\ IF overflowChecks /\ under
         THEN status' = "panicked" /\ rect' = rect
       ELSE IF overflowChecks /\ over
         THEN status' = "panicked" /\ rect' = <<moved>>
       ELSE IF e.size.width = 0
         THEN status' = "undefined"
              /\ \E w \in Usize : rect' = <<[e EXCEPT !.size.width = w]>>
       ELSE IF e.size.height = 0
         THEN status' = "undefined"
              /\ \E h \in Usize : rect' = <<[e EXCEPT !.size.height = h]>>
       ELSE status' = "ok" /\ rect' = <<e>>
    /\ UNCHANGED <<size, overflowChecks, areaVars, rangeVars>>

ExpandLeft ==
    \E value \in Amounts :
        ExpandStep("expand_left", value,
                   rect # <<>> /\ value > rect[1].pos.x,
                   rect # <<>> /\ rect[1].size.width + value > MaxUsize,
                   [rect[1] EXCEPT !.pos.x = wrapping_sub(rect[1].pos.x, value)],
                   expand_left(rect[1], value))

ExpandRight ==
    \E value \in Amounts :
        ExpandStep("expand_right", value,
                   FALSE,
                   rect # <<>> /\ rect[1].size.width + value > MaxUsize,
                   rect[1],
                   expand_right(rect[1], value))

ExpandTop ==
    \E value \in Amounts :
        ExpandStep("expand_top", value,
                   rect # <<>> /\ value > rect[1].pos.y,
                   rect # <<>> /\ rect[1].size.height + value > MaxUsize,
                   [rect[1] EXCEPT !.pos.y = wrapping_sub(rect[1].pos.y, value)],
                   expand_top(rect[1], value))

ExpandBottom ==
    \E value \in Amounts :
        ExpandStep("expand_bottom", value,
                   FALSE,
                   rect # <<>> /\ rect[1].size.height + value > MaxUsize,
                   rect[1],
                   expand_bottom(rect[1], value))

NextRect ==
    \/ CallRectNew
    \/ CallRectNewChecked
    \/ CallSizeNewChecked
    \/ ExpandLeft
    \/ ExpandRight
    \/ ExpandTop
    \/ ExpandBottom

SpecRect == InitRect /\ [][NextRect]_vars

----------------------------------------------------------------------------
(* RangeExclusive<usize>: (self.0, self.1) is the pair <<r[1], r[2]>> *)

contains_inclusive(self, v) == v >= self[1] /\ v <= self[2]

contains(self, v) == v > self[1] /\ v < self[2]

contains_either(self, other) == contains(self, other[1]) \/ contains(self, other[2])

\* a faulty variant: only self is asked whether it contains an endpoint of other
intersects_one_sided(self, other) == self = other \/ contains_either(self, other)

intersects(self, other) ==
    self = other \/ contains_either(self, other) \/ contains_either(other, self)

Ranges == (0..MaxRangeVal) \X (0..MaxRangeVal)

InitRange ==
    /\ rx \in Ranges /\ ry \in Ranges /\ rret = NoRRet
    /\ AreaIdle /\ RectIdle

CallIntersects ==
    /\ ~rret.called
    /\ rret' = [called |-> TRUE,
                xy |-> intersects(rx, ry), yx |-> intersects(ry, rx),
                xx |-> intersects(rx, rx), yy |-> intersects(ry, ry)]
    /\ UNCHANGED <<rx, ry, areaVars, rectVars>>

SpecRange == InitRange /\ [][CallIntersects]_vars

----------------------------------------------------------------------------
(* What the area claims are measured against: unit cells of the grid *)

Cells == (0..(GridW - 1)) \X (0..(GridH - 1))

\* the unit cell [c[1], c[1]+1) x [c[2], c[2]+1) lies inside r
InRect(c, r) ==
    /\ r.pos.x <= c[1] /\ c[1] < r.pos.x + r.size.width
    /\ r.pos.y <= c[2] /\ c[2] < r.pos.y + r.size.height

\* how many rectangles of rs cover cell c
Cover(rs, c) == Cardinality({i \in DOMAIN rs : InRect(c, rs[i])})

\* Cover(rs, c) for every cell c of S, as a sequence (one entry per cell)
RECURSIVE CoverCounts(_, _)
CoverCounts(rs, S) ==
    IF S = {} THEN <<>>
    ELSE LET c == CHOOSE x \in S : TRUE
         IN <<Cover(rs, c)>> \o CoverCounts(rs, S \ {c})

RECURSIVE SumAreas(_, _)
SumAreas(rs, i) == IF i > Len(rs) THEN 0 ELSE area(rs[i]) + SumAreas(rs, i + 1)

----------------------------------------------------------------------------
(* Claims *)

\* C1: covered_area(rects) is the exact area of the union of the rectangles:
\* the number of unit grid cells lying inside at least one of them, whatever
\* the order, duplicates, nesting or partial overlaps.
C1_CoveredAreaIsUnionArea ==
    ret.fn = "covered_area" =>
        ret.val = Cardinality({c \in Cells : \E i \in DOMAIN rects : InRect(c, rects[i])})

\* C1 witness: covered_area has run on three rectangles, two of which overlap
\* partially (neither contains the other) and two of which are equal or nested.
C1_Witness ==
    /\ ret.fn = "covered_area" /\ Len(rects) = 3
    /\ \E i, j \in DOMAIN rects :
          /\ i # j /\ overlap(rects[i], rects[j]) # <<>>
          /\ overlap(rects[i], rects[j]) # <<rects[i]>>
          /\ overlap(rects[i], rects[j]) # <<rects[j]>>
    /\ \E i, j \in DOMAIN rects : i # j /\ overlap(rects[i], rects[j]) = <<rects[j]>>

\* C2 as stated: obscured_area counts every cell covered by two or more
\* rectangles exactly once, however many rectangles cover it.
C2_ObscuredCountsOnce ==
    ret.fn = "obscured_area" =>
        ret.val = Cardinality({c \in Cells : Cover(rects, c) >= 2})

\* C2 amended: a cell counts if and only if two or more rectangles cover it;
\* it counts once for the second rectangle and once more for every further
\* rectangle covering it.
C2_ObscuredCountsExtraCovers ==
    ret.fn = "obscured_area" =>
        \A k \in {CoverCounts(rects, Cells)} :
            ret.val = Cardinality({c \in DOMAIN k : k[c] >= 2})
                      + Cardinality({cn \in (DOMAIN k) \X (3..Len(rects)) : cn[2] <= k[cn[1]]})

\* C2 witness: obscured_area has run on rectangles three of which share a
\* cell, next to a cell covered exactly twice or once.
C2_Witness ==
    /\ ret.fn = "obscured_area"
    /\ \E c \in Cells : Cover(rects, c) = 3
    /\ \E c \in Cells : Cover(rects, c) \in {1, 2}

\* C3: a.overlap(b) is Some(r) exactly when max(left) < min(right) and
\* max(top) < min(bottom); r's edges are those maxima and minima, its width
\* and height are >= 1 and it is the set intersection of a and b; rectangles
\* sharing only an edge or a corner, or apart, give None.
C3_OverlapIsIntersection ==
    ret.fn = "overlap" =>
        LET a == rects[1]
            b == rects[2]
            l == Max(left(a), left(b))
            r == Min(right(a), right(b))
            t == Max(top(a), top(b))
            bt == Min(bottom(a), bottom(b))
        IN /\ (ret.opt # <<>>) <=> (l < r /\ t < bt)
           /\ ret.opt # <<>> =>
                /\ left(ret.opt[1]) = l /\ right(ret.opt[1]) = r
                /\ top(ret.opt[1]) = t /\ bottom(ret.opt[1]) = bt
                /\ ret.opt[1].size.width >= 1 /\ ret.opt[1].size.height >= 1
                /\ {c \in Cells : InRect(c, ret.opt[1])}
                     = {c \in Cells : InRect(c, a) /\ InRect(c, b)}
           /\ ret.opt = <<>> => {c \in Cells : InRect(c, a) /\ InRect(c, b)} = {}

\* C3 witness: overlap has returned Some(r) with r neither operand.
C3_Witness ==
    /\ ret.fn = "overlap" /\ ret.opt # <<>>
    /\ ret.opt[1] # rects[1] /\ ret.opt[1] # rects[2]

\* C4 as stated: a checked constructor given a zero width or height returns
\* an InvalidDimension error value (the call returns, nothing aborts) and no
\* Size or Rect; given positive dimensions it returns exactly those.
C4_ZeroDimensionIsErrorValue ==
    last.op \in {"Size::new_checked", "Rect::new_checked"} =>
        IF last.width = 0 \/ last.height = 0
        THEN status = "ok" /\ rect = <<>> /\ size = <<>>
        ELSE /\ status = "ok"
             /\ last.op = "Size::new_checked" =>
                    size = <<[width |-> last.width, height |-> last.height]>>
             /\ last.op = "Rect::new_checked" =>
                    rect # <<>> /\ rect[1].size = [width |-> last.width, height |-> last.height]

\* C4 amended: a checked constructor given a zero width or height panics
\* (unwrap of the failed conversion) and produces no Size or Rect, clamped or
\* otherwise; given positive dimensions it returns exactly those.
C4_ZeroDimensionPanics ==
    last.op \in {"Size::new_checked", "Rect::new_checked"} =>
        IF last.width = 0 \/ last.height = 0
        THEN status = "panicked" /\ rect = <<>> /\ size = <<>>
        ELSE /\ status = "ok"
             /\ last.op = "Size::new_checked" =>
                    size = <<[width |-> last.width, height |-> last.height]>>
             /\ last.op = "Rect::new_checked" =>
                    rect # <<>> /\ rect[1].size = [width |-> last.width, height |-> last.height]

\* C4 witness: Rect::new_checked has been called with a zero height.
C4_Witness ==
    last.op = "Rect::new_checked" /\ last.width > 0 /\ last.height = 0

\* right() > left() as a caller observes it: the call returns and the value
\* returned is greater
RightGtLeft(r) == ~(overflowChecks /\ right_overflows(r)) /\ right(r) > left(r)
BottomGtTop(r) == ~(overflowChecks /\ bottom_overflows(r)) /\ bottom(r) > top(r)

C6_IntersectsReflexiveSymmetric ==
    rret.called => rret.xx /\ rret.yy /\ (rret.xy <=> rret.yx)

\* C6 witness: intersects has run on a reversed range and a different range
\* it intersects.
C6_Witness ==
    rret.called /\ rx[1] > rx[2] /\ rx # ry /\ rret.xy

\* C7: covered_area is 0 for an empty slice and > 0 for a non-empty one.
C7_CoveredAreaPositive ==
    ret.fn = "covered_area" =>
        /\ rects = <<>> => ret.val = 0
        /\ rects # <<>> => ret.val > 0

\* C7 witness: covered_area has run on a single rectangle.
C7_Witness ==
    ret.fn = "covered_area" /\ Len(rects) = 1 /\ ret.val > 0

\* C8: for ranges (a,b), (c,d) with a < b and c < d, intersects is true
\* exactly when max(a,c) < min(b,d).
C8_IntersectsIsOpenOverlap ==
    (rret.called /\ rx[1] < rx[2] /\ ry[1] < ry[2]) =>
        (rret.xy <=> Max(rx[1], ry[1]) < Min(rx[2], ry[2]))

\* C8 witness: intersects has returned false for two well-ordered ranges
\* touching at an endpoint.
C8_Witness ==
    rret.called /\ rx[1] < rx[2] /\ ry[1] < ry[2] /\ rx[2] = ry[1] /\ ~rret.xy

\* C9: obscured_area is the sum over cells of (k - 1) for each cell covered
\* by k >= 2 rectangles, which is the sum of the rectangles' areas minus
\* covered_area(rects); the subtraction inside obscured_area never goes
\* below 0.
C9_ObscuredIsExcessCoverage ==
    ret.fn = "obscured_area" =>
        /\ \A k \in {CoverCounts(rects, Cells)} :
              ret.val = Cardinality({cn \in (DOMAIN k) \X (1..Len(rects)) : cn[2] < k[cn[1]]})
        /\ ret.val = SumAreas(rects, 1) - covered_area(rects)
        /\ ret.sum >= ret.pooled
        /\ ret.val = ret.sum - ret.pooled

\* C9 witness: obscured_area has run with a cell covered three times and
\* both operands of the subtraction positive.
C9_Witness ==
    /\ ret.fn = "obscured_area"
    /\ \E c \in Cells : Cover(rects, c) = 3
    /\ ret.pooled > 0 /\ ret.sum > ret.pooled

\* the step is a call of op on a rect, with an amount within the
\* preconditions (inContract still holds after it)
ExpandCall(op) ==
    last'.op = op /\ ncalls' = ncalls + 1 /\ rect # <<>> /\ inContract'

====
